---- MODULE Spec2Model ----
(***************************************************************************)
(* hapi-mongoose-helper: the connection lifecycle guard (connect) and the  *)
(* error classifier functions of index.js.                                 *)
(*                                                                         *)
(* Connection part: one state machine whose steps are the invocations of   *)
(* connect(), the driver's events delivered to the listeners connect()     *)
(* registered, the settling of the driver's connect attempt (with the .catch *)
(* continuation of connect()), and the expiry of a setTimeout timer.       *)
(* Time is abstracted: a pending timer may expire at any moment.           *)
(*                                                                         *)
(* Classifier part: the pure functions, applied to an argument drawn in    *)
(* the initial state.                                                      *)
(***************************************************************************)
EXTENDS Integers, Sequences, FiniteSets, TLC

VARIABLES readyState, listeners, calls, timers, lastLog, fatal, alive,
          arg, fn, ret

connVars == <<readyState, listeners, calls, timers, lastLog, fatal, alive>>
classVars == <<arg, fn, ret>>
vars == <<readyState, listeners, calls, timers, lastLog, fatal, alive,
          arg, fn, ret>>

----------------------------------------------------------------------------
(* Bounds *)

\* invocations of connect()
MaxCalls == 2
\* timers ever created by setTimeout
MaxTimers == 2
\* largest dieConnectTimeout tried (0 stands for "not configured")
MaxTimeout == 1

----------------------------------------------------------------------------
(* Values *)

\* options.dieConnectTimeout absent (or falsy)
Undefined == 0
\* dieTimeoutId before any assignment (let dieTimeoutId;)
NoTimer == 0

DieMessage == "Unable to establish connection with database"

\* the events connect() subscribes to
Events == {"connected", "close", "error",
           "disconnecting", "connecting", "open", "reconnected"}
\* const events = [...]
LoggedOnlyEvents == <<"disconnecting", "connecting", "open", "reconnected">>

\* errors the driver may report
DriverErrors == {"failed to connect to server", "topology destroyed"}

\* mongoose.connection.readyState: 0 disconnected, 1 connected,
\* 2 connecting, 3 disconnecting
ReadyStates == 0..3

\* a record of server.log(tags, msg), with the line of index.js that wrote it
Log(tags, msg, line) == [tags |-> tags, msg |-> msg, line |-> line]
NoLog == Log(<<>>, "", 0)

UnusedTimer == [state |-> "unused", timeout |-> 0, owner |-> 0]

----------------------------------------------------------------------------
(* Timers (Node's setTimeout / clearTimeout) *)

FreeIds(tm) == {t \in DOMAIN tm : tm[t].state = "unused"}

\* the handle the next setTimeout returns
NewId(tm) == CHOOSE t \in FreeIds(tm) : \A u \in FreeIds(tm) : t <= u

\* clearTimeout(id): cancels a pending timer; no effect on undefined, on a
\* timer that has fired or on one already cleared
clearTimeout(tm, id) ==
    IF id \in DOMAIN tm /\ tm[id].state = "pending"
    THEN [tm EXCEPT ![id].state = "cleared"]
    ELSE tm

\* function dieIfNotConnected(timeout) { return setTimeout(() => die(), timeout); }
\* the new timer table; the handle returned is NewId(tm)
dieIfNotConnected(tm, timeout, owner) ==
    [tm EXCEPT ![NewId(tm)] =
        [state |-> "pending", timeout |-> timeout, owner |-> owner]]

Pending(tm) == {t \in DOMAIN tm : tm[t].state = "pending"}
PendingOf(tm, i) == {t \in Pending(tm) : tm[t].owner = i}

----------------------------------------------------------------------------
(* connect(mongoose, server, options)                                      *)
(* The part of the state a call or a handler reads and writes is passed as *)
(* a record s = [readyState, listeners, calls, timers, lastLog].           *)

CurrentState ==
    [readyState |-> readyState, listeners |-> listeners, calls |-> calls,
     timers |-> timers, lastLog |-> lastLog]

\* the closure of an invocation that returned early
EarlyCall(dt) ==
    [early |-> TRUE, opt |-> dt, dieTimeoutId |-> NoTimer,
     driver |-> "none", driverErr |-> "",
     promise |-> "resolved", promiseErr |-> ""]

\* the closure of an invocation that issued mongoose.connect
GuardCall(dt, id) ==
    [early |-> FALSE, opt |-> dt, dieTimeoutId |-> id,
     driver |-> "pending", driverErr |-> "",
     promise |-> "pending", promiseErr |-> ""]

\* mongoose.connection.on(event, ...) for every event of connect()
Subscribe(ls, i) == [e \in Events |-> Append(ls[e], i)]

\* the body of connect() after the uri assertion; dt is
\* options.dieConnectTimeout
connectAlwaysSubscribes(s, dt) ==
    LET i == Len(s.calls) + 1
        armed == dt # Undefined
        tm == IF armed THEN dieIfNotConnected(s.timers, dt, i) ELSE s.timers
        id == IF armed THEN NewId(s.timers) ELSE NoTimer
    IN  IF s.readyState = 1 \/ s.readyState = 2
        THEN [s EXCEPT
                !.listeners = Subscribe(s.listeners, i),
                !.calls = Append(s.calls, EarlyCall(dt)),
                !.lastLog = Log(<<"mongoose", "info">>,
                                "Already connecting/connected..", 135)]
        ELSE [readyState |-> 2,
              listeners |-> Subscribe(s.listeners, i),
              calls |-> Append(s.calls, GuardCall(dt, id)),
              timers |-> tm,
              lastLog |-> Log(<<"mongoose", "info">>, "Connecting to database..", 162)]
connect(s, dt) ==
    LET i == Len(s.calls) + 1
        armed == dt # Undefined
        tm == IF armed THEN dieIfNotConnected(s.timers, dt, i) ELSE s.timers
        id == IF armed THEN NewId(s.timers) ELSE NoTimer
    IN  IF s.readyState = 1 \/ s.readyState = 2
        THEN [s EXCEPT
                !.calls = Append(s.calls, EarlyCall(dt)),
                !.lastLog = Log(<<"mongoose", "info">>,
                                "Already connecting/connected..", 135)]
        ELSE [readyState |-> 2,
              listeners |-> Subscribe(s.listeners, i),
              calls |-> Append(s.calls, GuardCall(dt, id)),
              timers |-> tm,
              lastLog |-> Log(<<"mongoose", "info">>, "Connecting to database..", 162)]

----------------------------------------------------------------------------
(* The listeners of one invocation i *)

\* on('connected'): clearTimeout(dieTimeoutId); log
OnConnected(s, i) ==
    [s EXCEPT
        !.timers = clearTimeout(s.timers, s.calls[i].dieTimeoutId),
        !.lastLog = Log(<<"mongoose", "info", "connected">>,
                        "Connected to database.", 145)]

\* on('close'): log; if (options.dieConnectTimeout) dieTimeoutId = dieIfNotConnected(...)
OnCloseNoRearm(s, i) ==
    [s EXCEPT !.lastLog = Log(<<"mongoose", "info">>, "Disconnected from database.", 149)]
OnClose(s, i) ==
    IF s.calls[i].opt # Undefined
    THEN [s EXCEPT
            !.lastLog = Log(<<"mongoose", "info">>, "Disconnected from database.", 149),
            !.timers = dieIfNotConnected(s.timers, s.calls[i].opt, i),
            !.calls[i].dieTimeoutId = NewId(s.timers)]
    ELSE [s EXCEPT
            !.lastLog = Log(<<"mongoose", "info">>, "Disconnected from database.", 149)]

\* on('error', (err) => server.log(['mongoose', 'error'], err))
OnErrorClearsTimer(s, i, err) ==
    [s EXCEPT
        !.timers = clearTimeout(s.timers, s.calls[i].dieTimeoutId),
        !.lastLog = Log(<<"mongoose", "error">>, err, 155)]
OnError(s, i, err) ==
    [s EXCEPT !.lastLog = Log(<<"mongoose", "error">>, err, 155)]

\* events.forEach((event) => on(event, () => server.log([..., event], ...)))
OnLoggedOnly(s, i, event) ==
    [s EXCEPT !.lastLog = Log(<<"mongoose", "info", event>>,
                              "Mongoose connection event: " \o event, 159)]

Handler(s, i, event, err) ==
    CASE event = "connected" -> OnConnected(s, i)
      [] event = "close"     -> OnClose(s, i)
      [] event = "error"     -> OnError(s, i, err)
      [] OTHER               -> OnLoggedOnly(s, i, event)

\* the state of the connection the driver has set when it emits the event
\* (error leaves it as it is)
StateAt(event, r) ==
    CASE event \in {"connected", "open", "reconnected"} -> 1
      [] event = "connecting"    -> 2
      [] event = "disconnecting" -> 3
      [] event = "close"         -> 0
      [] OTHER                   -> r

\* EventEmitter.emit: the listeners of the event run in registration order
RECURSIVE Dispatch(_, _, _, _)
Dispatch(s, ls, event, err) ==
    IF ls = <<>> THEN s
    ELSE Dispatch(Handler(s, Head(ls), event, err), Tail(ls), event, err)

\* closures whose close listener arms a timer
Arming(ls, cs) == {k \in 1..Len(ls) : cs[ls[k]].opt # Undefined}

----------------------------------------------------------------------------
(* Error classifier: JavaScript values *)

\* largest count field of a write result
MaxCount == 2
\* chunks an error message is put together from
MaxChunks == 4

JsUndefined == [type |-> "undefined"]
JsNull == [type |-> "null"]
JsBool(b) == [type |-> "boolean", v |-> b]
JsNum(n) == [type |-> "number", v |-> n]
JsStr(str) == [type |-> "string", v |-> str]
JsArray(items) == [type |-> "array", items |-> items]
\* an object with the fields a write result may have; a field that is
\* absent is JsUndefined
JsObject(n, result, matchedCount) ==
    [type |-> "object", n |-> n, result |-> result, matchedCount |-> matchedCount]
\* an Error; message is a sequence of characters (a literal of the source
\* counts as one), errors the mapping a ValidationError carries
JsError(name, message, errors) ==
    [type |-> "Error", name |-> name, message |-> message, errors |-> errors]

\* !v
Falsy(v) ==
    \/ v.type \in {"undefined", "null"}
    \/ v.type = "boolean" /\ ~v.v
    \/ v.type = "number" /\ v.v = 0
    \/ v.type = "string" /\ v.v = ""

\* v.name for a property that may be absent
Prop(v, name) ==
    IF v.type = "object" THEN v[name] ELSE JsUndefined

\* function NotFoundException(message) { this.message = message; this.name = ... }
NotFoundException(message) ==
    [type |-> "NotFoundException", name |-> "NotFoundException", message |-> message]

\* Boom.notFound(), Boom.conflict(msg), Boom.badRequest(msg, data)
Boom(statusCode, message, data) ==
    [type |-> "Boom", statusCode |-> statusCode, message |-> message, data |-> data]

NoResponse == [type |-> "none"]
Return(v) == [kind |-> "return", value |-> v, response |-> NoResponse]
Throw(e) == [kind |-> "throw", value |-> e, response |-> NoResponse]

----------------------------------------------------------------------------
(* duplicateKeyError: /^E11000.*index:((.*\$|\s+)?([^\s]+))/.exec(err.message) *)
(* Messages are sequences of characters; the alphabet has one whitespace   *)
(* character and no line terminator, so "." matches every character.       *)

E11000 == <<"E", "1", "1", "0", "0", "0">>
INDEX == <<"i", "n", "d", "e", "x", ":">>
NoMatch == <<>>

IsSpace(c) == c = " "

Max(S) == CHOOSE x \in S : \A y \in S : y <= x
Min(S) == CHOOSE x \in S : \A y \in S : x <= y

\* positions at which an occurrence of "index:" that follows ^E11000 ends
IndexEnds(m) ==
    {k \in 1..Len(m) : k - 5 > Len(E11000) /\ SubSeq(m, k - 5, k) = INDEX}

\* where group 3 starts when "index:" ends at k, 0 when the rest does not
\* match: the optional group prefers .*\$ (greedy), then \s+, then nothing
Group3Start(m, k) ==
    LET dollars == {j \in (k + 1)..(Len(m) - 1) : m[j] = "$" /\ ~IsSpace(m[j + 1])}
        nonspace == {j \in (k + 1)..Len(m) : ~IsSpace(m[j])}
    IN  IF dollars # {} THEN Max(dollars) + 1
        ELSE IF nonspace # {} THEN Min(nonspace)
        ELSE 0

\* [^\s]+ from position j, greedy
NonSpaceRun(m, j) ==
    LET stops == {e \in j..Len(m) : IsSpace(m[e])}
    IN  SubSeq(m, j, IF stops = {} THEN Len(m) ELSE Min(stops) - 1)

\* dup[3] of the match, NoMatch for null; the first .* is greedy, so the
\* last "index:" the rest matches after is the one taken
ExecDup(m) ==
    LET ks == {k \in IndexEnds(m) : Group3Start(m, k) # 0}
    IN  IF Len(m) >= Len(E11000) /\ SubSeq(m, 1, Len(E11000)) = E11000 /\ ks # {}
        THEN NonSpaceRun(m, Group3Start(m, Max(ks)))
        ELSE NoMatch

\* the function duplicateKeyError() returns
duplicateKeyErrorSwallows(err) ==
    IF ExecDup(err.message) # NoMatch
    THEN Throw(Boom(409, <<"Duplicate key error: ">> \o ExecDup(err.message), JsUndefined))
    ELSE Return(JsUndefined)
duplicateKeyError(err) ==
    IF ExecDup(err.message) # NoMatch
    THEN Throw(Boom(409, <<"Duplicate key error: ">> \o ExecDup(err.message), JsUndefined))
    ELSE Throw(err)

----------------------------------------------------------------------------
(* notFoundReply, validationError, notFoundExceptionIfNoMatch,             *)
(* notFoundExceptionIfEmpty                                                *)

\* notFoundReply(h, code)(result); h.response(result).code(code) is
\* recorded in the response field of the outcome
notFoundReply(result, code) ==
    IF Falsy(result) \/ result.type = "NotFoundException"
    THEN Throw(Boom(404, <<"Not Found">>, JsUndefined))
    ELSE IF code # JsUndefined
         THEN [Return(result) EXCEPT !.response = [type |-> "response", source |-> result, code |-> code]]
         ELSE Return(result)

\* Object.keys(err.errors).map((key) => ({field: ...path, message: ...message}))
ExposedErrors(errors) ==
    [k \in 1..Len(errors) |-> [field |-> errors[k].path, message |-> errors[k].message]]

TypeError == [type |-> "TypeError"]

\* validationError(err); Object.keys(undefined) and errors[0].message of an
\* empty list throw a TypeError
validationErrorLastMessage(err) ==
    IF Falsy(err.name) \/ err.name # JsStr("ValidationError")
    THEN Throw(err)
    ELSE IF err.errors = JsUndefined \/ err.errors.entries = <<>>
         THEN Throw(TypeError)
         ELSE Throw(Boom(400,
                         <<"Validation failed: ">>
                            \o ExposedErrors(err.errors.entries)[Len(err.errors.entries)].message,
                         [_expose |-> ExposedErrors(err.errors.entries)]))
validationError(err) ==
    IF Falsy(err.name) \/ err.name # JsStr("ValidationError")
    THEN Throw(err)
    ELSE IF err.errors = JsUndefined \/ err.errors.entries = <<>>
         THEN Throw(TypeError)
         ELSE Throw(Boom(400,
                         <<"Validation failed: ">> \o ExposedErrors(err.errors.entries)[1].message,
                         [_expose |-> ExposedErrors(err.errors.entries)]))

\* n < 1 for the n of notFoundExceptionIfNoMatch (undefined < 1 is false)
LessThanOne(n) == n.type = "number" /\ n.v < 1

\* notFoundExceptionIfNoMatch(res): each of the three ifs overwrites n
notFoundExceptionIfNoMatch(res) ==
    LET n0 == JsUndefined
        n1 == IF Prop(res, "n") # JsUndefined THEN Prop(res, "n") ELSE n0
        n2 == IF Prop(Prop(res, "result"), "n") # JsUndefined
              THEN Prop(Prop(res, "result"), "n") ELSE n1
        n3 == IF Prop(res, "matchedCount") # JsUndefined
              THEN Prop(res, "matchedCount") ELSE n2
    IN  IF Falsy(res) THEN Throw(NotFoundException(<<"Empty database result">>))
        ELSE IF LessThanOne(n3) THEN Throw(NotFoundException(<<"No document matched for update">>))
        ELSE Return(res)

\* notFoundExceptionIfEmpty(data)
notFoundExceptionIfEmpty(data) ==
    IF Falsy(data) THEN Throw(NotFoundException(<<"Empty data">>))
    ELSE IF data.type = "array" /\ data.items = <<>>
         THEN Throw(NotFoundException(<<"Empty data array">>))
         ELSE Return(data)

----------------------------------------------------------------------------
(* Arguments the classifier functions are applied to *)

Chunks == {E11000, INDEX, <<" ">>, <<"$">>, <<"a">>, <<"b", "c">>}

RECURSIVE MessagesOf(_)
MessagesOf(k) ==
    IF k = 0 THEN {<<>>}
    ELSE MessagesOf(k - 1) \cup {m \o c : m \in MessagesOf(k - 1), c \in Chunks}

Messages == MessagesOf(MaxChunks)

Counts == {JsUndefined} \cup {JsNum(c) : c \in 0..MaxCount}

FalsyValues == {JsUndefined, JsNull, JsBool(FALSE), JsNum(0), JsStr("")}

\* results of update, remove and updateOne in their different shapes
WriteResults ==
    {JsObject(n, r, m) :
        n \in Counts,
        r \in {JsUndefined} \cup {JsObject(c, JsUndefined, JsUndefined) : c \in Counts},
        m \in Counts}

FieldErrors ==
    {[key |-> f, path |-> f, message |-> <<msg>>] :
        f \in {"items", "title"}, msg \in {"M", "is required"}}
        \cup {[key |-> "items.0", path |-> "items", message |-> <<"M">>]}

\* err.errors: absent, or a mapping given by its entries in Object.keys order
JsMapping(entries) == [type |-> "mapping", entries |-> entries]

ErrorMappings ==
    {JsUndefined, JsMapping(<<>>)} \cup {JsMapping(<<e>>) : e \in FieldErrors}
        \cup {JsMapping(<<e[1], e[2]>>) :
                e \in {p \in FieldErrors \X FieldErrors : p[1].key # p[2].key}}

ErrorNames == {JsUndefined, JsStr(""), JsStr("ValidationError"), JsStr("Error"),
               JsStr("MongoError"), JsStr("validationerror")}

\* errors of the driver, with every message
DriverErrs == {JsError(JsStr("MongoError"), m, JsUndefined) : m \in Messages}

\* errors as a save or a validation raises them
NamedErrs ==
    {JsError(name, m, errors) :
        name \in ErrorNames,
        m \in {<<"c", "r", "a", "p">>, E11000 \o <<" ">> \o INDEX \o <<"a">>},
        errors \in ErrorMappings}

\* values a lookup resolves to
LookupValues ==
    FalsyValues
        \cup {JsBool(TRUE), JsNum(1), JsStr("doc"),
              JsArray(<<>>), JsArray(<<JsNum(0)>>), JsArray(<<JsNum(1), JsNum(2)>>),
              NotFoundException(<<"Empty data">>), NotFoundException(<<"No document matched for update">>),
              JsError(JsStr("Error"), <<"c", "r", "a", "p">>, JsUndefined)}
        \cup WriteResults

\* success codes given to notFoundReply (undefined: none)
Codes == {JsUndefined, JsNum(200), JsNum(201)}

ReplyArgs == {[type |-> "replyArgs", result |-> v, code |-> c] : v \in LookupValues, c \in Codes}

Arguments == DriverErrs \cup NamedErrs \cup LookupValues \cup ReplyArgs

IsError(v) == v.type = "Error"

----------------------------------------------------------------------------
(* Initial state: no connect() yet; the driver's connection may be in any  *)
(* state (the test-rerun case of the source's comment).                    *)

\* what a function that was not applied has produced
NoOutcome == [kind |-> "none", value |-> [type |-> "undefined"], response |-> [type |-> "none"]]

FnNames == {"duplicateKeyError", "validationError", "notFoundReply",
            "notFoundExceptionIfNoMatch", "notFoundExceptionIfEmpty"}

\* arg: the argument; fn: the functions applied to it so far; ret: the
\* outcome of each
ClassIdle ==
    /\ arg = [type |-> "none"]
    /\ fn = {}
    /\ ret = [f \in FnNames |-> NoOutcome]

Init ==
    /\ readyState \in ReadyStates
    /\ listeners = [e \in Events |-> <<>>]
    /\ calls = <<>>
    /\ timers = [t \in 1..MaxTimers |-> UnusedTimer]
    /\ lastLog = NoLog
    /\ fatal = <<>>
    /\ alive = TRUE
    /\ ClassIdle

----------------------------------------------------------------------------
(* Actions *)

Install(s) ==
    /\ readyState' = s.readyState
    /\ listeners' = s.listeners
    /\ calls' = s.calls
    /\ timers' = s.timers
    /\ lastLog' = s.lastLog

\* connect() with options.uri a string (without one Hoek.assert throws
\* before anything is read or written)
Connect(dt) ==
    /\ alive
    /\ Len(calls) < MaxCalls
    /\ (dt # Undefined /\ readyState \notin {1, 2}) => FreeIds(timers) # {}
    /\ Install(connect(CurrentState, dt))
    /\ UNCHANGED <<fatal, alive, classVars>>

\* the driver emits an event; every listener registered for it runs
Emit(event, err) ==
    /\ alive
    /\ listeners[event] # <<>>
    /\ event = "close" =>
          Cardinality(FreeIds(timers)) >= Cardinality(Arming(listeners[event], calls))
    /\ Install(Dispatch([CurrentState EXCEPT !.readyState = StateAt(event, readyState)],
                        listeners[event], event, err))
    /\ UNCHANGED <<fatal, alive, classVars>>

EmitConnected == Emit("connected", "")
EmitClose == Emit("close", "")
EmitError == \E err \in DriverErrors : Emit("error", err)
EmitLoggedOnly == \E k \in 1..Len(LoggedOnlyEvents) : Emit(LoggedOnlyEvents[k], "")

\* return mongoose.connect(uri, options).catch((err) => {
\*     server.log(['mongoose', 'error'], err); throw err; });
\* the driver's attempt of invocation i settles with outcome ("fulfilled" or
\* "rejected" with err) and the continuation settles the promise connect()
\* returned
catchSwallows(s, i, outcome, err) ==
    IF outcome = "fulfilled"
    THEN [s EXCEPT !.calls[i].driver = "fulfilled",
                   !.calls[i].promise = "resolved"]
    ELSE [s EXCEPT !.calls[i].driver = "rejected",
                   !.calls[i].driverErr = err,
                   !.lastLog = Log(<<"mongoose", "error">>, err, 164),
                   !.calls[i].promise = "resolved"]
catch(s, i, outcome, err) ==
    IF outcome = "fulfilled"
    THEN [s EXCEPT !.calls[i].driver = "fulfilled",
                   !.calls[i].promise = "resolved"]
    ELSE [s EXCEPT !.calls[i].driver = "rejected",
                   !.calls[i].driverErr = err,
                   !.lastLog = Log(<<"mongoose", "error">>, err, 164),
                   !.calls[i].promise = "rejected",
                   !.calls[i].promiseErr = err]

\* the connect attempt succeeds; the driver has the connection open
DriverConnectOk(i) ==
    /\ alive
    /\ i \in 1..Len(calls)
    /\ calls[i].driver = "pending"
    /\ Install(catch([CurrentState EXCEPT !.readyState = 1], i, "fulfilled", ""))
    /\ UNCHANGED <<fatal, alive, classVars>>

\* the connect attempt fails with err; the driver leaves the connection
\* disconnected
DriverConnectFail(i, err) ==
    /\ alive
    /\ i \in 1..Len(calls)
    /\ calls[i].driver = "pending"
    /\ Install(catch([CurrentState EXCEPT !.readyState = 0], i, "rejected", err))
    /\ UNCHANGED <<fatal, alive, classVars>>

\* function die() { throw new Error('Unable to establish connection with database'); }
\* thrown from the timer callback: an uncaught exception.  The process ends
\* unless the host catches it (caught: the domain of the test).
\* fatal is the sequence of the uncaught errors so far
dieSilently(f) == f
die(f) == Append(f, DieMessage)

TimerFire(t, caught) ==
    /\ alive
    /\ t \in Pending(timers)
    /\ timers' = [timers EXCEPT ![t].state = "fired"]
    /\ fatal' = die(fatal)
    /\ alive' = caught
    /\ UNCHANGED <<readyState, listeners, calls, lastLog, classVars>>

Next ==
    \/ \E dt \in 0..MaxTimeout : Connect(dt)
    \/ EmitConnected
    \/ EmitClose
    \/ EmitError
    \/ EmitLoggedOnly
    \/ \E i \in 1..MaxCalls : DriverConnectOk(i)
    \/ \E i \in 1..MaxCalls, err \in DriverErrors : DriverConnectFail(i, err)
    \/ \E t \in 1..MaxTimers, caught \in BOOLEAN : TimerFire(t, caught)

Spec == Init /\ [][Next]_vars

\* a timer that is due runs its callback (Node's event loop)
LiveSpec == Spec /\ \A t \in 1..MaxTimers : WF_vars(\E caught \in BOOLEAN : TimerFire(t, caught))

----------------------------------------------------------------------------
(* The classifier functions applied to an argument *)

ClassInit ==
    /\ readyState = 0
    /\ listeners = [e \in Events |-> <<>>]
    /\ calls = <<>>
    /\ timers = [t \in 1..MaxTimers |-> UnusedTimer]
    /\ lastLog = NoLog
    /\ fatal = <<>>
    /\ alive = TRUE
    /\ arg \in Arguments
    /\ fn = {}
    /\ ret = [f \in FnNames |-> NoOutcome]

Apply(name, result) ==
    /\ name \notin fn
    /\ fn' = fn \cup {name}
    /\ ret' = [ret EXCEPT ![name] = result]
    /\ UNCHANGED <<arg, connVars>>

ApplyDuplicateKeyError ==
    IsError(arg) /\ Apply("duplicateKeyError", duplicateKeyError(arg))

ApplyValidationError ==
    IsError(arg) /\ Apply("validationError", validationError(arg))

ApplyNotFoundReply ==
    arg.type = "replyArgs" /\ Apply("notFoundReply", notFoundReply(arg.result, arg.code))

ApplyNotFoundExceptionIfNoMatch ==
    arg \in LookupValues /\ Apply("notFoundExceptionIfNoMatch", notFoundExceptionIfNoMatch(arg))

ApplyNotFoundExceptionIfEmpty ==
    arg \in LookupValues /\ Apply("notFoundExceptionIfEmpty", notFoundExceptionIfEmpty(arg))

ClassNext ==
    \/ ApplyDuplicateKeyError
    \/ ApplyValidationError
    \/ ApplyNotFoundReply
    \/ ApplyNotFoundExceptionIfNoMatch
    \/ ApplyNotFoundExceptionIfEmpty

ClassSpec == ClassInit /\ [][ClassNext]_vars

----------------------------------------------------------------------------
(* Properties of the connection lifecycle guard *)

\* the invocations that registered listeners
Guards == {i \in 1..Len(calls) : ~calls[i].early}

\* C1: at most one liveness timer of a connect() invocation is pending at
\* any time (every arming first cancels the previously pending timer).
C1_AtMostOneTimer ==
    \A i \in Guards : Cardinality(PendingOf(timers, i)) <= 1

\* C2: while the last record the guard logged is the one of its connected
\* handler (a connected event was handled and no close event since), no
\* liveness timer of a guard is pending and the fatal action does not fire.
C2_ConnectedStopsTimer ==
    /\ [](lastLog.line = 145 => \A i \in Guards : PendingOf(timers, i) = {})
    /\ [][lastLog.line = 145 => fatal' = fatal]_vars

\* C3: a pending liveness timer leads to the fatal action (die() throws
\* 'Unable to establish connection with database' as an uncaught error),
\* unless a connected handler cancels the timer first or the process has
\* already ended.
C3_TimerLeadsToFatal ==
    \A t \in 1..MaxTimers :
        (timers[t].state = "pending")
            ~> \/ timers[t].state = "fired" /\ fatal # <<>> /\ fatal[Len(fatal)] = DieMessage
               \/ timers[t].state = "cleared"
               \/ ~alive

C3_Witness ==
    /\ \E t \in 1..MaxTimers : timers[t].state = "fired"
    /\ \E t \in 1..MaxTimers : timers[t].state = "cleared"
    /\ fatal # <<>>
    /\ alive

\* a step in which the close listeners ran: only they write line 149, and
\* a step that changes the timers without an uncaught error is theirs
CloseHandled ==
    /\ lastLog'.line = 149
    /\ lastLog.line # 149 \/ timers' # timers
    /\ fatal' = fatal

\* the fallback of the earlier version of connect():
\* dieIfNotConnected(options.dieConnectTimeout || 10000)
DefaultDieTimeout == 10000

\* C4 as stated: every close event handled leaves a liveness timer armed
\* for each guard, with the configured dieConnectTimeout or else with the
\* fallback default.
C4_CloseAlwaysArms ==
    [][CloseHandled =>
        \A i \in Guards :
            /\ calls'[i].dieTimeoutId \in PendingOf(timers', i)
            /\ timers'[calls'[i].dieTimeoutId].timeout =
                  IF calls[i].opt # Undefined THEN calls[i].opt
                                              ELSE DefaultDieTimeout]_vars

\* C4 amended: every close event handled arms a new liveness timer with the
\* configured dieConnectTimeout for a guard that has one, and arms no timer
\* for a guard without dieConnectTimeout.
C4_CloseArmsIfConfigured ==
    [][CloseHandled =>
        \A i \in Guards :
            IF calls[i].opt # Undefined
            THEN /\ calls'[i].dieTimeoutId \in PendingOf(timers', i)
                 /\ timers[calls'[i].dieTimeoutId].state = "unused"
                 /\ timers'[calls'[i].dieTimeoutId].timeout = calls[i].opt
            ELSE /\ calls'[i].dieTimeoutId = calls[i].dieTimeoutId
                 /\ PendingOf(timers', i) = PendingOf(timers, i)]_vars

C4_Witness ==
    /\ lastLog.line = 149
    /\ \E i \in Guards : /\ calls[i].opt # Undefined
                         /\ calls[i].dieTimeoutId \in PendingOf(timers, i)
                         /\ calls[i].dieTimeoutId > 1

\* C5: an invocation of connect() made while readyState is 1 or 2 issues no
\* connect call, registers no listener, arms no timer, logs 'Already
\* connecting/connected..', returns a resolved promise and leaves the
\* earlier invocations as they were.
C5_AlreadyConnecting ==
    [][(Len(calls') = Len(calls) + 1 /\ readyState \in {1, 2}) =>
        /\ listeners' = listeners
        /\ timers' = timers
        /\ readyState' = readyState
        /\ fatal' = fatal
        /\ SubSeq(calls', 1, Len(calls)) = calls
        /\ calls'[Len(calls')].driver = "none"
        /\ calls'[Len(calls')].dieTimeoutId = NoTimer
        /\ calls'[Len(calls')].promise = "resolved"
        /\ lastLog' = Log(<<"mongoose", "info">>, "Already connecting/connected..", 135)]_vars

\* the second invocation came while the first was still connecting, and
\* both have resolved
C5_Witness ==
    /\ Len(calls) = 2
    /\ ~calls[1].early /\ calls[1].promise = "resolved"
    /\ calls[2].early /\ calls[2].promise = "resolved"
    /\ Len(listeners["close"]) = 1

\* C6: the promise of an invocation that issued the connect call is resolved
\* exactly when the driver's attempt succeeded and rejected, with the
\* driver's error and after logging it, exactly when the attempt failed; the
\* fatal action leaves every promise as it is.
C6_PromiseFollowsDriver ==
    /\ [](\A i \in Guards :
            /\ calls[i].promise = "resolved" <=> calls[i].driver = "fulfilled"
            /\ calls[i].promise = "rejected" <=> calls[i].driver = "rejected"
            /\ calls[i].promise = "rejected" =>
                  /\ calls[i].promiseErr = calls[i].driverErr
                  /\ calls[i].promiseErr \in DriverErrors)
    /\ [][/\ \A i \in Guards :
                (calls[i].promise = "pending" /\ calls'[i].promise = "rejected") =>
                    lastLog' = Log(<<"mongoose", "error">>, calls'[i].promiseErr, 164)
          /\ fatal' # fatal => calls' = calls]_vars

C6_Witness ==
    /\ \E i \in Guards : calls[i].promise = "rejected"
    /\ \E i \in Guards : calls[i].promise = "resolved"
    /\ fatal # <<>>

\* C7: handling error, disconnecting, connecting, open or reconnected writes
\* a log record (lines 155 and 159) and nothing else: timers, promises,
\* listeners and the fatal action are untouched.
C7_LoggedOnly ==
    [][(lastLog' # lastLog /\ lastLog'.line \in {155, 159}) =>
        /\ timers' = timers
        /\ calls' = calls
        /\ listeners' = listeners
        /\ fatal' = fatal
        /\ alive' = alive]_vars

C7_Witness ==
    /\ lastLog.line \in {155, 159}
    /\ Pending(timers) # {}
    /\ \E i \in Guards : calls[i].promise = "pending"

----------------------------------------------------------------------------
(* Properties of the error classifier *)

IsNotFoundException(o) == o.kind = "throw" /\ o.value.type = "NotFoundException"

\* the count of a write result as the description has it: the first
\* defined of n, result.n, matchedCount
FirstDefinedCount(res) ==
    IF Prop(res, "n") # JsUndefined THEN Prop(res, "n")
    ELSE IF Prop(Prop(res, "result"), "n") # JsUndefined THEN Prop(Prop(res, "result"), "n")
    ELSE Prop(res, "matchedCount")

\* C8: notFoundExceptionIfNoMatch(res) raises NotFoundException when res is
\* falsy or the first defined of n, result.n, matchedCount is less than 1,
\* and returns res unchanged otherwise (n decides when n and matchedCount
\* are both present).
C8_FirstDefinedDecides ==
    "notFoundExceptionIfNoMatch" \in fn =>
        IF Falsy(arg) \/ LessThanOne(FirstDefinedCount(arg))
        THEN IsNotFoundException(ret["notFoundExceptionIfNoMatch"])
        ELSE ret["notFoundExceptionIfNoMatch"] = Return(arg)

IsEmptyArray(v) == v.type = "array" /\ v.items = <<>>

\* C9: notFoundReply(h, code)(result) signals not-found (404) when result is
\* falsy, is empty (a zero-length array) or is a NotFoundException, and
\* otherwise returns the same value, tagging the response with code only
\* when code is given.
C9_EmptyIsNotFound ==
    "notFoundReply" \in fn =>
        LET o == ret["notFoundReply"]
            v == arg.result
        IN  IF Falsy(v) \/ IsEmptyArray(v) \/ v.type = "NotFoundException"
            THEN o.kind = "throw" /\ o.value.type = "Boom" /\ o.value.statusCode = 404
            ELSE /\ o.kind = "return" /\ o.value = v
                 /\ (arg.code = JsUndefined) <=> (o.response = NoResponse)
                 /\ (arg.code # JsUndefined) => (o.response.code = arg.code)

\* C10: an error whose message does not match the E11000 pattern is thrown
\* again, the same object, by the function of duplicateKeyError(); an error
\* whose name is not 'ValidationError' is thrown again, the same object, by
\* validationError; neither function ever returns.
C10_PassThrough ==
    /\ "duplicateKeyError" \in fn =>
          /\ ret["duplicateKeyError"].kind = "throw"
          /\ ExecDup(arg.message) = NoMatch => ret["duplicateKeyError"] = Throw(arg)
    /\ "validationError" \in fn =>
          /\ ret["validationError"].kind = "throw"
          /\ arg.name # JsStr("ValidationError") => ret["validationError"] = Throw(arg)

\* both functions were applied to an error that is neither: its message
\* starts with E11000 and has "index:" but nothing the pattern accepts after
C10_Witness ==
    /\ {"duplicateKeyError", "validationError"} \subseteq fn
    /\ arg.name = JsStr("MongoError")
    /\ Len(arg.message) > Len(E11000) + Len(INDEX)
    /\ SubSeq(arg.message, 1, Len(E11000)) = E11000
    /\ IndexEnds(arg.message) # {}
    /\ ExecDup(arg.message) = NoMatch
    /\ ret["duplicateKeyError"] = Throw(arg)
    /\ ret["validationError"] = Throw(arg)

\* C11: for an error named 'ValidationError' whose errors mapping has at
\* least one field, validationError throws a bad-request (400) error whose
\* message is 'Validation failed: ' followed by the message of the first
\* field in iteration order and whose metadata (_expose) lists the
\* {field, message} pair of every field, field being the path of the
\* sub-error, in that order.
C11_ValidationFailed ==
    ("validationError" \in fn /\ arg.name = JsStr("ValidationError")
        /\ arg.errors # JsUndefined /\ arg.errors.entries # <<>>) =>
        LET o == ret["validationError"]
            es == arg.errors.entries
        IN  /\ o.kind = "throw"
            /\ o.value.type = "Boom"
            /\ o.value.statusCode = 400
            /\ o.value.message = <<"Validation failed: ">> \o Head(es).message
            /\ Len(o.value.data._expose) = Len(es)
            /\ \A k \in 1..Len(es) :
                  /\ o.value.data._expose[k].field = es[k].path
                  /\ o.value.data._expose[k].message = es[k].message

\* applied to a mapping of two fields with different paths and messages
C11_Witness ==
    /\ "validationError" \in fn
    /\ arg.name = JsStr("ValidationError")
    /\ arg.errors # JsUndefined
    /\ Len(arg.errors.entries) = 2
    /\ arg.errors.entries[1].path # arg.errors.entries[2].path
    /\ arg.errors.entries[1].message # arg.errors.entries[2].message
    /\ ret["validationError"].kind = "throw"
    /\ ret["validationError"].value.statusCode = 400

----------------------------------------------------------------------------
(* Repeated invocations of connect() *)

\* C12: across any sequence of connect() invocations and driver state
\* changes (connect success, connect failure, close), at most one listener
\* of the guard is registered for each lifecycle event.
C12_OneListenerPerEvent ==
    \A e \in Events : Len(listeners[e]) <= 1

====
